---- MODULE Spec2Model ----
(***************************************************************************)
(* Model of tools/visual.py: plot (a sampled function curve with an        *)
(* optional dashed zero line) and plot_homotopy (two panels showing the    *)
(* real and imaginary parts of solution paths against a parameter path).   *)
(*                                                                         *)
(* Drawn real numbers are exact fractions <<n, d>> with d > 0; complex     *)
(* inputs are records [re, im]; an optional argument is <<>> (None) or     *)
(* <<v>>; an optional axes argument is 0 (None) or an axes id.             *)
(* A drawing surface is a record [lines, aspect, xlabel, ylabel]; the      *)
(* surfaces live in `axes` (id -> surface) and `figs` lists, per figure,   *)
(* the ids of its axes.                                                    *)
(***************************************************************************)
EXTENDS Integers, Sequences, FiniteSets, TLC

VARIABLES axes, figs, pc, err, call, pre

vars == <<axes, figs, pc, err, call, pre>>

-----------------------------------------------------------------------------
(* Bounds of the enumerated inputs *)

MaxN == 3
MaxPaths == 2

-----------------------------------------------------------------------------
(* Exact real arithmetic on fractions *)

Frac(n) == <<n, 1>>
FracEq(a, b) == a[1] * b[2] = b[1] * a[2]
FracLeq(a, b) == a[1] * b[2] <= b[1] * a[2]
FracSub(a, b) == <<a[1] * b[2] - b[1] * a[2], a[2] * b[2]>>
FracMul(a, b) == <<a[1] * b[1], a[2] * b[2]>>

-----------------------------------------------------------------------------
(* Exceptions *)

NoErr == [type |-> "none", line |-> 0, k |-> 0]
Raise(type, line, k) == [type |-> type, line |-> line, k |-> k]

-----------------------------------------------------------------------------
(* The plotting library's surfaces *)

FreshAx == [lines |-> <<>>, aspect |-> "auto", xlabel |-> "", ylabel |-> ""]

OldLine ==
    [kind |-> "line", x |-> <<Frac(0), Frac(2)>>, y |-> <<Frac(5), Frac(7)>>,
     color |-> "cycle", linestyle |-> "-", linewidth |-> "default", zorder |-> 2]

UsedAx ==
    [lines |-> <<OldLine>>, aspect |-> "equal", xlabel |-> "old x", ylabel |-> "old y"]

AxStates == {FreshAx, UsedAx}

\* plt.subplots(ncols=n): one new figure with n fresh axes
Subplots(st, ncols) ==
    LET first == Len(st.axes) + 1
        ids == [i \in 1..ncols |-> first + i - 1]
    IN  [axes |-> st.axes \o [i \in 1..ncols |-> FreshAx],
         figs |-> Append(st.figs, ids),
         axs  |-> ids]

\* keyword arguments forwarded to ax.plot
DefaultStyle == [color |-> "cycle", linestyle |-> "-", linewidth |-> "default"]
RedStyle == [color |-> "red", linestyle |-> "-", linewidth |-> "default"]
RefStyle == [color |-> "k", linestyle |-> "--", linewidth |-> "1"]
Styles == {DefaultStyle, RedStyle}

\* ax.plot(x, y, **style): x and y must have the same first dimension
AxPlot(a, x, y, style) ==
    IF Len(x) # Len(y)
    THEN [ok |-> FALSE, ax |-> a]
    ELSE [ok |-> TRUE,
          ax |-> [a EXCEPT !.lines = Append(@,
                    [kind |-> "line", x |-> x, y |-> y, color |-> style.color,
                     linestyle |-> style.linestyle, linewidth |-> style.linewidth,
                     zorder |-> 2])]]

RECURSIVE FracMin(_)
FracMin(s) ==
    IF Len(s) = 1 THEN s[1]
    ELSE LET m == FracMin(Tail(s)) IN IF FracLeq(s[1], m) THEN s[1] ELSE m

RECURSIVE FracMax(_)
FracMax(s) ==
    IF Len(s) = 1 THEN s[1]
    ELSE LET m == FracMax(Tail(s)) IN IF FracLeq(m, s[1]) THEN s[1] ELSE m

RECURSIVE AllX(_)
AllX(lines) ==
    IF lines = <<>> THEN <<>>
    ELSE (IF Head(lines).kind = "line" THEN Head(lines).x ELSE <<>>) \o AllX(Tail(lines))

\* ax.get_xlim(): the view limits follow the x data of the drawn lines
\* (an empty axes has limits (0, 1); autoscale margins are left out)
GetXlim(a) ==
    LET xs == AllX(a.lines)
    IN  IF xs = <<>> THEN <<Frac(0), Frac(1)>> ELSE <<FracMin(xs), FracMax(xs)>>

\* ax.hlines(y, xmin, xmax, color='k', linestyle='--', linewidth=1, zorder=-1)
AxHlines(a, y, xmin, xmax) ==
    [a EXCEPT !.lines = Append(@,
        [kind |-> "hlines", x |-> <<xmin, xmax>>, y |-> <<y>>, color |-> "k",
         linestyle |-> "--", linewidth |-> "1", zorder |-> -1])]

SetAspect(a, v) == [a EXCEPT !.aspect = v]
SetXlabel(a, s) == [a EXCEPT !.xlabel = s]
SetYlabel(a, s) == [a EXCEPT !.ylabel = s]

-----------------------------------------------------------------------------
(* The numerical library *)


\* a sampling that leaves the stop value out (endpoint=False)
LinspaceNoEndpoint(start, stop, num) ==
    [i \in 1..num |-> <<start * num + (i - 1) * (stop - start), num>>]

\* np.linspace(start, stop, num): endpoint=True, so div = num - 1; the
\* samples are start + i * (delta / div), and for num > 1 the last sample is
\* overwritten by stop; for num = 1 the only sample is start
Linspace(start, stop, num) ==
    LET div == num - 1
        delta == stop - start
    IN  [i \in 1..num |->
            IF num > 1 /\ i = num THEN Frac(stop)
            ELSE IF div > 0 THEN <<start * div + (i - 1) * delta, div>>
            ELSE Frac(start + (i - 1) * delta)]

\* ndarray.real / ndarray.imag; a plain list has neither attribute
AttrReal(arr) ==
    IF arr.kind = "ndarray"
    THEN [ok |-> TRUE, val |-> [i \in 1..Len(arr.val) |-> Frac(arr.val[i].re)]]
    ELSE [ok |-> FALSE, val |-> <<>>]

AttrImag(arr) ==
    IF arr.kind = "ndarray"
    THEN [ok |-> TRUE, val |-> [i \in 1..Len(arr.val) |-> Frac(arr.val[i].im)]]
    ELSE [ok |-> FALSE, val |-> <<>>]

\* the data ax.plot reads from a real-valued sequence (list or ndarray)
AsData(arr) == [i \in 1..Len(arr.val) |-> Frac(arr.val[i].re)]

-----------------------------------------------------------------------------
(* plot(f, x0, x1, N=100, ax=None, zero=None, **kwargs) *)

\* the callables handed to plot: "checked" raises on a negative sample
Funcs == {"square", "ident", "checked"}

ApplyF(f, x) ==
    IF f = "square" THEN [ok |-> TRUE, val |-> [i \in 1..Len(x) |-> FracMul(x[i], x[i])]]
    ELSE IF f = "ident" THEN [ok |-> TRUE, val |-> x]
    ELSE IF \E i \in 1..Len(x) : x[i][1] < 0 THEN [ok |-> FALSE, val |-> <<>>]
    ELSE [ok |-> TRUE, val |-> x]


\* a plot that opens a figure of its own on every call
EnsureAxAlways(st, ax) ==
    LET s == Subplots(st, 1) IN [axes |-> s.axes, figs |-> s.figs, ax |-> s.axs[1]]

\* if ax is None: fig, ax = plt.subplots()
EnsureAx(st, ax) ==
    IF ax = 0
    THEN LET s == Subplots(st, 1) IN [axes |-> s.axes, figs |-> s.figs, ax |-> s.axs[1]]
    ELSE [axes |-> st.axes, figs |-> st.figs, ax |-> ax]


\* a zero line guarded by "if zero:" instead of "if zero is not None:"
DrawZeroTruthy(a, zero) ==
    IF zero # <<>> /\ zero[1] # 0
    THEN LET lim == GetXlim(a) IN AxHlines(a, Frac(zero[1]), lim[1], lim[2])
    ELSE a

\* if zero is not None: ax.hlines(zero, *ax.get_xlim(), ...)
DrawZero(a, zero) ==
    IF zero # <<>>
    THEN LET lim == GetXlim(a) IN AxHlines(a, Frac(zero[1]), lim[1], lim[2])
    ELSE a

\* a plot that draws the zero line before it evaluates f
PlotRunZeroFirst(st, f, x0, x1, N, ax, zero, style) ==
    LET s == EnsureAx(st, ax)
        x == Linspace(x0, x1, N)
        yr == ApplyF(f, x)
        z == [s.axes EXCEPT ![s.ax] = DrawZero(@, zero)]
        p == AxPlot(z[s.ax], x, yr.val, style)
    IN  IF ~yr.ok
        THEN [axes |-> z, figs |-> s.figs, ax |-> s.ax, x |-> x,
              err |-> Raise("Exception", 17, 0)]
        ELSE [axes |-> [z EXCEPT ![s.ax] = p.ax],
              figs |-> s.figs, ax |-> s.ax, x |-> x, err |-> NoErr]

PlotRun(st, f, x0, x1, N, ax, zero, style) ==
    LET s == EnsureAx(st, ax)
        x == Linspace(x0, x1, N)
        yr == ApplyF(f, x)
        p == AxPlot(s.axes[s.ax], x, yr.val, style)
    IN  IF ~yr.ok
        THEN [axes |-> s.axes, figs |-> s.figs, ax |-> s.ax, x |-> x,
              err |-> Raise("Exception", 17, 0)]
        ELSE IF ~p.ok
        THEN [axes |-> s.axes, figs |-> s.figs, ax |-> s.ax, x |-> x,
              err |-> Raise("ValueError", 18, 0)]
        ELSE [axes |-> [s.axes EXCEPT ![s.ax] = DrawZero(p.ax, zero)],
              figs |-> s.figs, ax |-> s.ax, x |-> x, err |-> NoErr]

XBounds == {-1, 0, 1}
Zeros == {<<>>, <<0>>, <<1>>}

Plot ==
    /\ pc = "idle"
    /\ \E f \in Funcs, x0 \in XBounds, x1 \in XBounds, N \in 1..MaxN,
          ax \in {0} \cup DOMAIN axes, zero \in Zeros, style \in Styles :
        /\ x0 < x1
        /\ LET r == PlotRun([axes |-> axes, figs |-> figs], f, x0, x1, N, ax, zero, style)
           IN  /\ axes' = r.axes
               /\ figs' = r.figs
               /\ err' = r.err
               /\ pc' = IF r.err = NoErr THEN "done" ELSE "raised"
               /\ call' = [op |-> "plot", f |-> f, x0 |-> x0, x1 |-> x1, N |-> N,
                           ax |-> ax, zero |-> zero, style |-> style,
                           target |-> r.ax, x |-> r.x]
        /\ pre' = [axes |-> axes, figs |-> figs]

-----------------------------------------------------------------------------
(* plot_homotopy(ppath, xpaths, rzero=None, czero=None, equal=True, axs=None) *)

C(re, im) == [re |-> re, im |-> im]
NdArray(v) == [kind |-> "ndarray", val |-> v]
List(v) == [kind |-> "list", val |-> v]

PathA == <<C(1, 1), C(2, 2), C(3, 3)>>
PathB == <<C(0, 1), C(1, -1), C(2, 0)>>
PathShort == <<C(1, 1), C(2, 2)>>
ParamVals == <<C(0, 0), C(1, 0), C(2, 0)>>
ZeroVals == <<C(0, 0), C(0, 0), C(0, 0)>>
ZeroShort == <<C(0, 0), C(0, 0)>>

PPaths == {NdArray(ParamVals), List(ParamVals)}
Paths == {NdArray(PathA), NdArray(PathB), NdArray(PathShort), List(PathA)}
XPaths == UNION {[1..n -> Paths] : n \in 0..MaxPaths}
RefCurves == {<<>>, <<NdArray(ZeroVals)>>, <<NdArray(ZeroShort)>>}

\* if axs is None: _, axs = plt.subplots(ncols=2, figsize=(10, 4))
EnsureAxs(st, axs) ==
    IF axs = <<>>
    THEN Subplots(st, 2)
    ELSE [axes |-> st.axes, figs |-> st.figs, axs |-> axs]

\* if zero is not None: axs[i].plot(zero, ppath, linewidth=1, color='k', linestyle='--')
DrawRef(ax, j, ppath, zero, line) ==
    IF zero = <<>> THEN [axes |-> ax, err |-> NoErr]
    ELSE LET p == AxPlot(ax[j], AsData(zero[1]), AsData(ppath), RefStyle)
         IN  IF p.ok THEN [axes |-> [ax EXCEPT ![j] = p.ax], err |-> NoErr]
             ELSE [axes |-> ax, err |-> Raise("ValueError", line, 0)]


\* a draw with the two axes exchanged: parameter horizontal, solution vertical
DrawPartTransposed(ax, j, part, pr, line, k) ==
    IF ~part.ok \/ ~pr.ok THEN [axes |-> ax, err |-> Raise("AttributeError", line, k)]
    ELSE LET p == AxPlot(ax[j], pr.val, part.val, DefaultStyle)
         IN  IF p.ok THEN [axes |-> [ax EXCEPT ![j] = p.ax], err |-> NoErr]
             ELSE [axes |-> ax, err |-> Raise("ValueError", line, k)]

\* axs[i].plot(xp.<part>, ppath.real): the attributes are read left to right,
\* then the line is drawn
DrawPart(ax, j, part, pr, line, k) ==
    IF ~part.ok \/ ~pr.ok THEN [axes |-> ax, err |-> Raise("AttributeError", line, k)]
    ELSE LET p == AxPlot(ax[j], part.val, pr.val, DefaultStyle)
         IN  IF p.ok THEN [axes |-> [ax EXCEPT ![j] = p.ax], err |-> NoErr]
             ELSE [axes |-> ax, err |-> Raise("ValueError", line, k)]


\* an iteration that puts the imaginary part on panel 1 and the real part on panel 2
DrawPathSwapped(ax, axs, ppath, xp, k) ==
    LET r1 == DrawPart(ax, axs[1], AttrImag(xp), AttrReal(ppath), 32, k)
    IN  IF r1.err # NoErr THEN r1
        ELSE DrawPart(r1.axes, axs[2], AttrReal(xp), AttrReal(ppath), 33, k)

\* one iteration of: for xp in xpaths
DrawPath(ax, axs, ppath, xp, k) ==
    LET r1 == DrawPart(ax, axs[1], AttrReal(xp), AttrReal(ppath), 32, k)
    IN  IF r1.err # NoErr THEN r1
        ELSE DrawPart(r1.axes, axs[2], AttrImag(xp), AttrReal(ppath), 33, k)


\* a loop that stops one path short
RECURSIVE PathLoopShort(_, _, _, _, _)
PathLoopShort(ax, axs, ppath, xpaths, k) ==
    IF k >= Len(xpaths) THEN [axes |-> ax, err |-> NoErr]
    ELSE LET r == DrawPath(ax, axs, ppath, xpaths[k], k)
         IN  IF r.err # NoErr THEN r ELSE PathLoopShort(r.axes, axs, ppath, xpaths, k + 1)

RECURSIVE PathLoop(_, _, _, _, _)
PathLoop(ax, axs, ppath, xpaths, k) ==
    IF k > Len(xpaths) THEN [axes |-> ax, err |-> NoErr]
    ELSE LET r == DrawPath(ax, axs, ppath, xpaths[k], k)
         IN  IF r.err # NoErr THEN r ELSE PathLoop(r.axes, axs, ppath, xpaths, k + 1)


\* an equal-aspect setting that reaches panel 1 only
SetAspectsFirstOnly(ax, axs, equal) ==
    IF equal THEN [ax EXCEPT ![axs[1]] = SetAspect(@, "equal")] ELSE ax

\* if equal: axs[0].set_aspect('equal'); axs[1].set_aspect('equal')
SetAspects(ax, axs, equal) ==
    IF equal
    THEN [ax EXCEPT ![axs[1]] = SetAspect(@, "equal"), ![axs[2]] = SetAspect(@, "equal")]
    ELSE ax


\* a labelling that also labels panel 2's y-axis
SetLabelsSymmetric(ax, axs) ==
    [ax EXCEPT ![axs[1]] = SetYlabel(SetXlabel(@, "Solution (Real)"), "Parameter"),
               ![axs[2]] = SetYlabel(SetXlabel(@, "Solution (Imaginary)"), "Parameter")]

\* the three axis labels
SetLabels(ax, axs) ==
    [ax EXCEPT ![axs[1]] = SetYlabel(SetXlabel(@, "Solution (Real)"), "Parameter"),
               ![axs[2]] = SetXlabel(@, "Solution (Imaginary)")]

\* a homotopy plot that checks every length before it draws anything
HomotopyRunValidated(st, ppath, xpaths, rzero, czero, equal, axs) ==
    LET s == EnsureAxs(st, axs)
        out(a, e) == [axes |-> a, figs |-> s.figs, axs |-> s.axs, err |-> e]
        bad == {k \in 1..Len(xpaths) : Len(xpaths[k].val) # Len(ppath.val)}
        r1 == DrawRef(s.axes, s.axs[1], ppath, rzero, 27)
        r2 == DrawRef(r1.axes, s.axs[2], ppath, czero, 29)
        r3 == PathLoop(r2.axes, s.axs, ppath, xpaths, 1)
    IN  IF bad # {}
        THEN out(s.axes, Raise("ValueError", 32, CHOOSE k \in bad : \A j \in bad : k <= j))
        ELSE IF r1.err # NoErr THEN out(r1.axes, r1.err)
        ELSE IF r2.err # NoErr THEN out(r2.axes, r2.err)
        ELSE IF r3.err # NoErr THEN out(r3.axes, r3.err)
        ELSE out(SetLabels(SetAspects(r3.axes, s.axs, equal), s.axs), NoErr)

HomotopyRun(st, ppath, xpaths, rzero, czero, equal, axs) ==
    LET s == EnsureAxs(st, axs)
        out(a, e) == [axes |-> a, figs |-> s.figs, axs |-> s.axs, err |-> e]
        r1 == DrawRef(s.axes, s.axs[1], ppath, rzero, 27)
        r2 == DrawRef(r1.axes, s.axs[2], ppath, czero, 29)
        r3 == PathLoop(r2.axes, s.axs, ppath, xpaths, 1)
    IN  IF r1.err # NoErr THEN out(r1.axes, r1.err)
        ELSE IF r2.err # NoErr THEN out(r2.axes, r2.err)
        ELSE IF r3.err # NoErr THEN out(r3.axes, r3.err)
        ELSE out(SetLabels(SetAspects(r3.axes, s.axs, equal), s.axs), NoErr)

\* the pairs of panels a caller can hand over: the axes of a two-column figure
Panels == {figs[i] : i \in {j \in DOMAIN figs : Len(figs[j]) = 2}}

PlotHomotopy ==
    /\ pc = "idle"
    /\ \E ppath \in PPaths, xpaths \in XPaths, rzero \in RefCurves, czero \in RefCurves,
          equal \in BOOLEAN, axs \in {<<>>} \cup Panels :
        LET r == HomotopyRun([axes |-> axes, figs |-> figs], ppath, xpaths, rzero, czero,
                             equal, axs)
        IN  /\ axes' = r.axes
            /\ figs' = r.figs
            /\ err' = r.err
            /\ pc' = IF r.err = NoErr THEN "done" ELSE "raised"
            /\ call' = [op |-> "plot_homotopy", ppath |-> ppath, xpaths |-> xpaths,
                        rzero |-> rzero, czero |-> czero, equal |-> equal, axs |-> axs,
                        target |-> r.axs]
    /\ pre' = [axes |-> axes, figs |-> figs]

-----------------------------------------------------------------------------
(* The caller owns one two-panel figure, each panel either fresh or already  *)
(* drawn on, and makes one call.                                             *)

NoCall == [op |-> "none"]

Init ==
    /\ axes \in [1..2 -> AxStates]
    /\ figs = << <<1, 2>> >>
    /\ pc = "idle"
    /\ err = NoErr
    /\ call = NoCall
    /\ pre = [axes |-> axes, figs |-> figs]

Next == Plot \/ PlotHomotopy

Spec == Init /\ [][Next]_vars

-----------------------------------------------------------------------------
(* Vocabulary of the properties *)

Returned == pc = "done"
Raised == pc = "raised"
CalledPlot == pc # "idle" /\ call.op = "plot"
CalledHomotopy == pc # "idle" /\ call.op = "plot_homotopy"

\* a surface as it was before the call (a surface the call created was fresh)
PreAx(id) == IF id \in DOMAIN pre.axes THEN pre.axes[id] ELSE FreshAx

\* the elements the call appended to a surface
NewLines(id) == SubSeq(axes[id].lines, Len(PreAx(id).lines) + 1, Len(axes[id].lines))

\* the call removed or changed nothing that was on the surface before
KeepsOld(id) ==
    /\ Len(axes[id].lines) >= Len(PreAx(id).lines)
    /\ SubSeq(axes[id].lines, 1, Len(PreAx(id).lines)) = PreAx(id).lines

Untouched(id) == axes[id] = pre.axes[id]

CountKind(lines, kind) == Cardinality({i \in 1..Len(lines) : lines[i].kind = kind})
CountStyle(lines, ls) == Cardinality({i \in 1..Len(lines) : lines[i].linestyle = ls})

Panel(j) == call.target[j]
RefCount(zero) == IF zero = <<>> THEN 0 ELSE 1

\* the k-th solution curve the call drew on panel j
Curve(j, k) ==
    NewLines(Panel(j))[RefCount(IF j = 1 THEN call.rzero ELSE call.czero) + k]

Reals(vals) == [i \in 1..Len(vals) |-> Frac(vals[i].re)]
Imags(vals) == [i \in 1..Len(vals) |-> Frac(vals[i].im)]

-----------------------------------------------------------------------------
(* C1: np.linspace samples for plot *)

Step == <<call.x1 - call.x0, call.N - 1>>

SamplesFromX0 ==
    /\ Len(call.x) = call.N
    /\ FracEq(call.x[1], Frac(call.x0))
    /\ \A i \in 1..(call.N - 1) : FracEq(FracSub(call.x[i + 1], call.x[i]), Step)

CurveOverSamples ==
    Returned => /\ NewLines(call.target) # <<>>
                /\ NewLines(call.target)[1].kind = "line"
                /\ NewLines(call.target)[1].x = call.x

\* C1 (as stated): for x0 < x1 and every positive N, N = 1 included, plot
\* samples exactly N evenly spaced points whose first is x0 and whose last is x1.
C1_SamplesReachBothEndpoints ==
    CalledPlot => /\ SamplesFromX0
                  /\ FracEq(call.x[call.N], Frac(call.x1))

\* C1 (amended): plot samples exactly N evenly spaced points starting at x0;
\* the last sample is x1 when N >= 2, and for N = 1 the single sample is x0.
C1_SamplesSpanInterval ==
    CalledPlot => /\ SamplesFromX0
                  /\ call.N >= 2 => FracEq(call.x[call.N], Frac(call.x1))
                  /\ call.N = 1 => call.x = <<Frac(call.x0)>>
                  /\ CurveOverSamples

C1_Witness ==
    /\ CalledPlot /\ Returned
    /\ call.N = 3 /\ call.x0 = -1 /\ call.x1 = 1
    /\ FracEq(call.x[1], Frac(-1)) /\ FracEq(call.x[2], Frac(0)) /\ call.x[3] = Frac(1)

-----------------------------------------------------------------------------
(* C2: the surface plot draws on *)

\* C2: plot with a surface supplied creates no surface and draws on the
\* supplied one; plot with none supplied creates exactly one and draws on it.
C2_SurfaceCreatedOnlyWhenAbsent ==
    CalledPlot =>
        /\ call.ax # 0 => /\ figs = pre.figs
                          /\ Len(axes) = Len(pre.axes)
                          /\ call.target = call.ax
        /\ call.ax = 0 => /\ Len(figs) = Len(pre.figs) + 1
                          /\ Len(axes) = Len(pre.axes) + 1
                          /\ call.target = Len(axes)
                          /\ figs[Len(figs)] = <<call.target>>
        /\ \A id \in DOMAIN pre.axes : id # call.target => Untouched(id)
        /\ KeepsOld(call.target)
        /\ Returned => /\ CountKind(NewLines(call.target), "line") = 1
                       /\ NewLines(call.target)[1].x = call.x
                       /\ NewLines(call.target)[1].y = ApplyF(call.f, call.x).val

C2_Witness ==
    /\ CalledPlot /\ Returned
    /\ call.ax = 0
    /\ Len(figs) = 2 /\ call.target = 3
    /\ Len(axes[3].lines) = 1

-----------------------------------------------------------------------------
(* C3: the dashed zero line *)

\* C3: when zero is supplied (0 included) exactly one dashed horizontal line
\* is drawn, at that y-value; when zero is omitted none is drawn.
C3_ZeroLineIffSupplied ==
    (CalledPlot /\ Returned) =>
        LET new == NewLines(call.target)
        IN  /\ call.zero = <<>> => /\ CountKind(new, "hlines") = 0
                                   /\ Len(new) = 1
            /\ call.zero # <<>> => /\ CountKind(new, "hlines") = 1
                                   /\ Len(new) = 2
                                   /\ new[2].kind = "hlines"
                                   /\ new[2].y = <<Frac(call.zero[1])>>
                                   /\ new[2].linestyle = "--"

C3_Witness ==
    /\ CalledPlot /\ Returned
    /\ call.zero = <<0>>
    /\ CountKind(NewLines(call.target), "hlines") = 1

-----------------------------------------------------------------------------
(* C4: what plot_homotopy draws for each path *)

\* C4: in the order of xpaths, the k-th curve of panel 1 has the real parts
\* of the k-th path as x-values, the k-th curve of panel 2 its imaginary
\* parts, and both have ppath as y-values.
C4_RealAndImaginaryParts ==
    (CalledHomotopy /\ Returned) =>
        \A k \in 1..Len(call.xpaths) :
            /\ Curve(1, k).x = Reals(call.xpaths[k].val)
            /\ Curve(2, k).x = Imags(call.xpaths[k].val)
            /\ Curve(1, k).y = Reals(call.ppath.val)
            /\ Curve(2, k).y = Reals(call.ppath.val)

C4_Witness ==
    /\ CalledHomotopy /\ Returned
    /\ call.xpaths = <<NdArray(PathB), NdArray(PathA)>>
    /\ call.rzero # <<>>
    /\ Curve(1, 1).x = <<Frac(0), Frac(1), Frac(2)>>
    /\ Curve(2, 1).x = <<Frac(1), Frac(-1), Frac(0)>>

-----------------------------------------------------------------------------
(* C5: the scenario plot_homotopy([0,1,2], [[1+1j, 2+2j, 3+3j]]) *)

Scenario(ppath, xpaths) ==
    /\ CalledHomotopy
    /\ call.ppath = ppath /\ call.xpaths = xpaths
    /\ call.rzero = <<>> /\ call.czero = <<>> /\ call.equal /\ call.axs = <<>>

ScenarioDrawn ==
    /\ Returned
    /\ Len(NewLines(Panel(1))) = 1 /\ Len(NewLines(Panel(2))) = 1
    /\ NewLines(Panel(1))[1].x = <<Frac(1), Frac(2), Frac(3)>>
    /\ NewLines(Panel(1))[1].y = <<Frac(0), Frac(1), Frac(2)>>
    /\ NewLines(Panel(2))[1].x = <<Frac(1), Frac(2), Frac(3)>>
    /\ NewLines(Panel(2))[1].y = <<Frac(0), Frac(1), Frac(2)>>

\* C5 (as stated): called with plain lists as written, the scenario completes
\* and draws (1,0),(2,1),(3,2) on panel 1 and on panel 2.
C5_ListScenarioDraws ==
    Scenario(List(ParamVals), <<List(PathA)>>) => ScenarioDrawn

\* C5 (amended): called with the same values as numerical arrays, the
\* scenario completes and draws (1,0),(2,1),(3,2) on panel 1 and on panel 2;
\* called with plain lists it raises AttributeError at the first path's draw
\* on panel 1 and no curve is drawn.
C5_ArrayScenarioDraws ==
    /\ Scenario(NdArray(ParamVals), <<NdArray(PathA)>>) => ScenarioDrawn
    /\ Scenario(List(ParamVals), <<List(PathA)>>) =>
          /\ Raised /\ err = Raise("AttributeError", 32, 1)
          /\ NewLines(Panel(1)) = <<>> /\ NewLines(Panel(2)) = <<>>

C5_Witness ==
    /\ Scenario(NdArray(ParamVals), <<NdArray(PathA)>>)
    /\ ScenarioDrawn

-----------------------------------------------------------------------------
(* C6: the number of solution curves *)

\* C6: each panel gets as many solution curves as xpaths has entries (none
\* for an empty xpaths), whether or not a reference curve is drawn as well.
C6_OneCurvePerPath ==
    (CalledHomotopy /\ Returned) =>
        \A j \in 1..2 :
            /\ CountStyle(NewLines(Panel(j)), "-") = Len(call.xpaths)
            /\ CountStyle(NewLines(Panel(j)), "--") =
                  RefCount(IF j = 1 THEN call.rzero ELSE call.czero)
            /\ KeepsOld(Panel(j))

C6_Witness ==
    /\ CalledHomotopy /\ Returned
    /\ Len(call.xpaths) = 2
    /\ call.rzero # <<>> /\ call.czero = <<>>
    /\ Len(NewLines(Panel(1))) = 3 /\ Len(NewLines(Panel(2))) = 2

-----------------------------------------------------------------------------
(* C7: the aspect ratio *)

\* C7: with equal false both panels keep the aspect ratio they had (the
\* library's default on panels the call created); with equal true both
\* panels are set to equal aspect.
C7_AspectFollowsEqual ==
    (CalledHomotopy /\ Returned) =>
        \A j \in 1..2 :
            /\ ~call.equal => axes[Panel(j)].aspect = PreAx(Panel(j)).aspect
            /\ (~call.equal /\ call.axs = <<>>) => axes[Panel(j)].aspect = "auto"
            /\ call.equal => axes[Panel(j)].aspect = "equal"

C7_Witness ==
    /\ CalledHomotopy /\ Returned
    /\ call.equal /\ call.axs = <<1, 2>>
    /\ pre.axes[1].aspect = "auto" /\ pre.axes[2].aspect = "auto"
    /\ axes[1].aspect = "equal" /\ axes[2].aspect = "equal"

-----------------------------------------------------------------------------
(* C8: the axis labels *)

\* C8: a call that completes labels panel 1's x-axis "Solution (Real)",
\* panel 2's x-axis "Solution (Imaginary)" and panel 1's y-axis "Parameter",
\* and leaves panel 2's y-axis label as it was.
C8_LabelsSet ==
    (CalledHomotopy /\ Returned) =>
        /\ axes[Panel(1)].xlabel = "Solution (Real)"
        /\ axes[Panel(2)].xlabel = "Solution (Imaginary)"
        /\ axes[Panel(1)].ylabel = "Parameter"
        /\ axes[Panel(2)].ylabel = PreAx(Panel(2)).ylabel

C8_Witness ==
    /\ CalledHomotopy /\ Returned
    /\ call.axs = <<1, 2>> /\ ~call.equal /\ call.czero # <<>>
    /\ pre.axes[2].ylabel = "old y" /\ axes[2].ylabel = "old y"
    /\ axes[1].ylabel = "Parameter"

-----------------------------------------------------------------------------
(* C9: f raises *)

\* C9: when f raises, plot ends with that exception and the supplied surface
\* is as it was: no curve and no zero line, even with zero supplied.
C9_FailureLeavesSurface ==
    (CalledPlot /\ ~ApplyF(call.f, call.x).ok) =>
        /\ Raised
        /\ err = Raise("Exception", 17, 0)
        /\ \A id \in DOMAIN pre.axes : Untouched(id)
        /\ NewLines(call.target) = <<>>

C9_Witness ==
    /\ CalledPlot /\ Raised
    /\ call.f = "checked" /\ call.ax = 1 /\ call.zero # <<>>
    /\ pre.axes[1] = UsedAx /\ axes[1] = UsedAx

-----------------------------------------------------------------------------
(* C10: a solution path of the wrong length *)

Fits(arr) == Len(arr.val) = Len(call.ppath.val)

\* path k is the first argument the plotting primitive rejects: ppath and
\* the paths up to k are arrays, the reference curves and the paths before k
\* fit ppath, and path k does not
FirstMisfit(k) ==
    /\ k \in 1..Len(call.xpaths)
    /\ call.ppath.kind = "ndarray"
    /\ call.rzero # <<>> => Fits(call.rzero[1])
    /\ call.czero # <<>> => Fits(call.czero[1])
    /\ \A i \in 1..k : call.xpaths[i].kind = "ndarray"
    /\ \A i \in 1..(k - 1) : Fits(call.xpaths[i])
    /\ ~Fits(call.xpaths[k])

\* C10: nothing is validated up front: when path k is the first misfit, the
\* error is raised by the draw of path k on panel 1; by then the reference
\* curves and the curves of paths 1..k-1 are on both panels, panel 2 has no
\* curve for path k, and neither aspect ratio nor labels have been set.
C10_MisfitSurfacesAtDraw ==
    CalledHomotopy =>
        \A k \in 1..Len(call.xpaths) :
            FirstMisfit(k) =>
                /\ Raised
                /\ err = Raise("ValueError", 32, k)
                /\ Len(NewLines(Panel(1))) = RefCount(call.rzero) + k - 1
                /\ Len(NewLines(Panel(2))) = RefCount(call.czero) + k - 1
                /\ CountStyle(NewLines(Panel(1)), "--") = RefCount(call.rzero)
                /\ CountStyle(NewLines(Panel(2)), "--") = RefCount(call.czero)
                /\ \A i \in 1..(k - 1) :
                      /\ Curve(1, i).x = Reals(call.xpaths[i].val)
                      /\ Curve(2, i).x = Imags(call.xpaths[i].val)
                /\ \A j \in 1..2 :
                      /\ KeepsOld(Panel(j))
                      /\ axes[Panel(j)].aspect = PreAx(Panel(j)).aspect
                      /\ axes[Panel(j)].xlabel = PreAx(Panel(j)).xlabel
                      /\ axes[Panel(j)].ylabel = PreAx(Panel(j)).ylabel

C10_Witness ==
    /\ CalledHomotopy /\ Raised
    /\ FirstMisfit(2)
    /\ call.rzero # <<>> /\ call.czero # <<>> /\ call.equal
    /\ Len(NewLines(Panel(1))) = 2 /\ Len(NewLines(Panel(2))) = 2

====
